---- MODULE Spec2Model ----
(***************************************************************************)
(* Stack-pinning subsystem of magnus: PinGuard (src/src/stack_pinned.rs),  *)
(* the StackPinned wrapper and its conversions (src/src/pin_convert.rs)    *)
(* and the one-pinned-argument method dispatch (src/src/pinned_method.rs). *)
(*                                                                         *)
(* One native thread runs at a time.  It is either in top-level native     *)
(* code (pc = "Idle": a function such as echo of tests/stack_pinned.rs or  *)
(* main of examples/pin_test.rs) or inside one dispatch made by the host   *)
(* through the function pointer built by pinned_method!.                   *)
(***************************************************************************)
EXTENDS Integers, Sequences, FiniteSets

(* ------------------------------ bounds -------------------------------- *)
\* number of PinGuards on record at one time
MaxGuards == 2
\* depth of the lexical scopes of one function
MaxDepth == 2
\* number of heap cells (Box::pin wrappers and BoxValue boxes)
MaxHeap == 2
\* the stack locals of the top-level function (echo has one: val)
NLocals == 1

(* --------------------------- values, types ---------------------------- *)
\* objects of the host heap; a handle (Value) is the identity of one
Objs == {1, 2, 3}
\* the dynamic class of an object
ClassOf(o) == IF o = 3 THEN "T_ARRAY" ELSE "T_STRING"
\* RbSelf and T of the registered method (RString in the demo)
RbSelf == "T_STRING"
ArgT == "T_STRING"
\* the handles the host passes as receiver and as argument
SelfInputs == {1, 3}
ArgInputs == {2, 3}

\* the stack slot of call_convert_value_pinned's local `pinned`
ArgSlot == 0
\* the stack slot of the function body's parameter rb_self
SelfSlot == 1
FrameSlots == {ArgSlot, SelfSlot}
Locals == 2..(NLocals + 1)
Heap == (NLocals + 2)..(NLocals + MaxHeap + 1)
Addr == FrameSlots \cup Locals \cup Heap

\* a storage cell: kind "free", "value" (a bare handle or typed handle),
\* "wrapper" (StackPinned<T>) or "box" (BoxValue<T>); src is the handle the
\* value was converted from
FreeCell == [kind |-> "free", ty |-> "none", raw |-> 0, src |-> 0, moved |-> FALSE]
ValueCell(v) ==
    [kind |-> "value", ty |-> v.ty, raw |-> v.raw, src |-> v.src, moved |-> FALSE]
\* a Value is its own handle
AsValue(o) == [ty |-> "Value", raw |-> o, src |-> o]
NoValue == [ty |-> "none", raw |-> 0, src |-> 0]

VARIABLES
    mem,      \* Addr -> cell
    gc,       \* the Root Registry: reg (Addr -> count) and the calls made
    stale,    \* slots of the dispatch frame whose handle a collection may
              \* have invalidated
    guards,   \* the PinGuards on record, by id
    scopes,   \* the lexical scope stack: each scope lists its locals
    pc,       \* the dispatch state
    disp,     \* the locals of the dispatch in progress
    last      \* the error of the latest try_convert_pinned, "none" if none

vars == <<mem, gc, stale, guards, scopes, pc, disp, last>>

(* ------------------------- the Root Registry -------------------------- *)
\* The registry is a list of addresses that may hold one address several
\* times: reg[a] counts the entries of a.  nreg counts the register_address
\* calls since the host last called in.  regs[g] and unregs[g] record the
\* addresses guard g passed to each primitive (who = 0: the caller is not a
\* guard).
Callers == 0..MaxGuards

NoRegistry ==
    [reg |-> [a \in Addr |-> 0], ub |-> FALSE, nreg |-> 0,
     regs |-> [g \in Callers |-> <<>>], unregs |-> [g \in Callers |-> <<>>]]

\* gc::register_address: append the address to the registry
register_address(R, a, who) ==
    [R EXCEPT !.reg[a] = @ + 1,
              !.nreg = @ + 1,
              !.regs[who] = IF who = 0 THEN @ ELSE Append(@, a)]

\* gc::unregister_address: remove one registration of the address;
\* undefined when the address is not registered
unregister_address(R, a, who) ==
    [R EXCEPT !.reg[a] = IF @ > 0 THEN @ - 1 ELSE 0,
              !.ub = @ \/ R.reg[a] = 0,
              !.unregs[who] = IF who = 0 THEN @ ELSE Append(@, a)]

\* StackPinned::register (the trait of stack_pinned.rs)
register(R, self, who) == register_address(R, self, who)

\* a deregister that passes the address of something else than self
deregister_other_address(R, self, who) ==
    unregister_address(R, IF self = ArgSlot THEN SelfSlot ELSE ArgSlot, who)

\* StackPinned::deregister
deregister(R, self, who) == unregister_address(R, self, who)

(* ------------------------------ PinGuard ------------------------------ *)
\* the guard value: `value` is the Pin<&mut T> it holds; the other fields
\* record where and over what it was constructed, and whether the cell was
\* left alone since (clean)
Guard(a, fn, R, cell) ==
    [value |-> a, live |-> TRUE, fn |-> fn,
     regAt |-> R.reg, cellAt |-> cell, clean |-> TRUE]

\* a constructor that registers the address twice
PinGuard_new_registers_twice(st, a, fn) ==
    LET g == Len(st.guards) + 1 IN
    [gc |-> register(register(st.gc, a, g), a, g),
     guards |-> Append(st.guards, Guard(a, fn, st.gc, st.mem[a])),
     mem |-> st.mem]

\* PinGuard::new: Pin::new(value); pin.as_ref().register(); Self { value: pin }
PinGuard_new(st, a, fn) ==
    LET g == Len(st.guards) + 1 IN
    [gc |-> register(st.gc, a, g),
     guards |-> Append(st.guards, Guard(a, fn, st.gc, st.mem[a])),
     mem |-> st.mem]

\* an unchecked constructor that leaves the registration to its caller
PinGuard_new_unchecked_no_register(st, a, fn) ==
    [gc |-> st.gc,
     guards |-> Append(st.guards, Guard(a, fn, st.gc, st.mem[a])),
     mem |-> st.mem]

\* PinGuard::new_unchecked: the same with Pin::new_unchecked
PinGuard_new_unchecked(st, a, fn) ==
    LET g == Len(st.guards) + 1 IN
    [gc |-> register(st.gc, a, g),
     guards |-> Append(st.guards, Guard(a, fn, st.gc, st.mem[a])),
     mem |-> st.mem]

\* a drop that does not deregister
PinGuard_drop_forgets(st, g) ==
    [gc |-> st.gc,
     guards |-> [st.guards EXCEPT ![g] = [Guard(@.value, @.fn, NoRegistry, FreeCell)
                                            EXCEPT !.live = FALSE]],
     mem |-> st.mem]

\* Drop for PinGuard: self.value.as_ref().deregister(); of a dropped guard
\* only the pointer it held and its function are kept
PinGuard_drop(st, g) ==
    [gc |-> deregister(st.gc, st.guards[g].value, g),
     guards |-> [st.guards EXCEPT ![g] = [Guard(@.value, @.fn, NoRegistry, FreeCell)
                                            EXCEPT !.live = FALSE]],
     mem |-> st.mem]

\* Drop for BoxValue: the box's address is unregistered and the box freed
BoxValue_drop(st, h) ==
    [gc |-> unregister_address(st.gc, h, 0),
     guards |-> st.guards,
     mem |-> [st.mem EXCEPT ![h] = FreeCell]]

\* PinGuard::as_pin: self.value.as_mut()
as_pin(G) == G.value
\* Deref::deref: self.value.as_ref().get_ref()
deref(G) == G.value
\* DerefMut::deref_mut: Pin::get_unchecked_mut(self.value.as_mut())
deref_mut(G) == G.value

\* a local of a scope: a guard (by id) or a box (by address)
GuardItem(g) == [guard |-> g, box |-> -1]
BoxItem(h) == [guard |-> 0, box |-> h]
DropLocal(st, it) ==
    IF it.guard > 0 THEN PinGuard_drop(st, it.guard) ELSE BoxValue_drop(st, it.box)

\* the locals of one scope are dropped in reverse order of declaration
RECURSIVE DropLocals(_, _)
DropLocals(st, ls) ==
    IF ls = <<>> THEN st
    ELSE DropLocals(DropLocal(st, ls[Len(ls)]), SubSeq(ls, 1, Len(ls) - 1))

\* leaving the n innermost scopes, innermost first
RECURSIVE DropScopes(_, _, _)
DropScopes(st, sc, n) ==
    IF n = 0 THEN st
    ELSE DropScopes(DropLocals(st, sc[Len(sc)].locals),
                    SubSeq(sc, 1, Len(sc) - 1), n - 1)

St == [gc |-> gc, guards |-> guards, mem |-> mem]

\* the function the thread is in: 0 for top-level code, 1 for the body of
\* the dispatch
CurFn == IF pc = "Invoking" THEN 1 ELSE 0
Running == pc \in {"Idle", "Invoking"}
\* the scopes of the current function
FnScopes == {i \in 1..Len(scopes) : scopes[i].fn = CurFn}
LiveGuards == {g \in 1..Len(guards) : guards[g].live}
\* the guards the current function can name
MyGuards == {g \in LiveGuards : guards[g].fn = CurFn}
Occupied == {a \in Addr : mem[a].kind # "free"}
\* addresses the current function can take &mut of: its locals or, in the
\* function body, its two parameters; and the heap cells
Reachable ==
    {a \in Occupied : \/ a \in Heap
                      \/ a \in Locals /\ pc = "Idle"
                      \/ a \in FrameSlots /\ pc = "Invoking"}

(* ------------------------------- Init --------------------------------- *)
NoOutcome == [kind |-> "none", value |-> 0, error |-> "none"]
NoDisp ==
    [rb_self |-> 0, arg |-> 0, converted_self |-> NoValue,
     converted_arg |-> NoValue, outcome |-> NoOutcome, argTried |-> FALSE,
     invoked |-> FALSE, regAt |-> [a \in Addr |-> 0]]

Init ==
    /\ mem = [a \in Addr |-> IF a \in Locals THEN ValueCell(AsValue(1)) ELSE FreeCell]
    /\ gc = NoRegistry
    /\ stale = {}
    /\ guards = <<>>
    /\ scopes = <<[fn |-> 0, locals |-> <<>>]>>
    /\ pc = "Idle"
    /\ disp = NoDisp
    /\ last = "none"

(* --------------------------- guard actions ---------------------------- *)
Declare(it) == [scopes EXCEPT ![Len(scopes)].locals = Append(@, it)]

\* let p = PinGuard::new(&mut x) over a handle x (also over &mut *q of a
\* live guard q)
GuardNew(a) ==
    /\ Running /\ a \in Reachable /\ Len(guards) < MaxGuards
    /\ mem[a].kind = "value"
    /\ LET st == PinGuard_new(St, a, CurFn) IN
         /\ gc' = st.gc /\ guards' = st.guards
    /\ scopes' = Declare(GuardItem(Len(guards) + 1))
    /\ UNCHANGED <<mem, stale, pc, disp, last>>

\* let p = unsafe { PinGuard::new_unchecked(w.get_value_mut()) } over the
\* value of a wrapper w, which has the wrapper's address
GuardNewUnchecked(a) ==
    /\ Running /\ a \in Reachable /\ Len(guards) < MaxGuards
    /\ mem[a].kind = "wrapper"
    /\ LET st == PinGuard_new_unchecked(St, a, CurFn) IN
         /\ gc' = st.gc /\ guards' = st.guards
    /\ scopes' = Declare(GuardItem(Len(guards) + 1))
    /\ UNCHANGED <<mem, stale, pc, disp, last>>

\* let v = *p: a read through the &T of deref
GuardRead(g) ==
    /\ Running /\ g \in MyGuards
    /\ mem[deref(guards[g])].kind # "free"
    /\ UNCHANGED vars

\* storing the handle o of another object of the same class at address a
\* while guards are live over it
Store(a, o) ==
    /\ mem[a].raw # o
    /\ ClassOf(o) = ClassOf(mem[a].raw)
    /\ mem' = [mem EXCEPT ![a].raw = o, ![a].src = o]
    /\ guards' = [h \in 1..Len(guards) |->
                    IF guards[h].live /\ guards[h].value = a
                    THEN [guards[h] EXCEPT !.clean = FALSE] ELSE guards[h]]
    /\ stale' = stale \ {a}
    /\ UNCHANGED <<gc, scopes, pc, disp, last>>

\* *p = v: a write through the &mut T of deref_mut
GuardWrite(g, o) ==
    /\ Running /\ g \in MyGuards /\ guards[g].clean
    /\ Store(deref_mut(guards[g]), o)

\* p.as_pin().set(v): a write through the Pin<&mut T> of as_pin
GuardSet(g, o) ==
    /\ Running /\ g \in MyGuards /\ guards[g].clean
    /\ Store(as_pin(guards[g]), o)

\* { ... : a nested block
EnterScope ==
    /\ Running /\ Cardinality(FnScopes) < MaxDepth
    /\ scopes' = Append(scopes, [fn |-> CurFn, locals |-> <<>>])
    /\ UNCHANGED <<mem, gc, stale, guards, pc, disp, last>>

\* ... } : the block ends and its locals are dropped
ExitScope ==
    /\ Running /\ Cardinality(FnScopes) > 1
    /\ LET st == DropScopes(St, scopes, 1) IN
         /\ gc' = st.gc /\ guards' = st.guards /\ mem' = st.mem
    /\ scopes' = SubSeq(scopes, 1, Len(scopes) - 1)
    /\ UNCHANGED <<stale, pc, disp, last>>

\* return from inside nested blocks of the top-level function: every scope
\* of the function is left; the function is then entered afresh
EarlyReturn ==
    /\ pc = "Idle" /\ LiveGuards # {}
    /\ LET st == DropScopes(St, scopes, Len(scopes)) IN
         /\ gc' = st.gc /\ guards' = st.guards /\ mem' = st.mem
    /\ scopes' = <<[fn |-> 0, locals |-> <<>>]>>
    /\ UNCHANGED <<stale, pc, disp, last>>

(* ------------------- conversions and the wrapper ---------------------- *)
\* TryConvert::try_convert: the handle as a T when its class is T's
try_convert(val, ty) ==
    IF ClassOf(val) = ty
    THEN [ok |-> TRUE, value |-> [ty |-> ty, raw |-> val, src |-> val],
          error |-> "none"]
    ELSE [ok |-> FALSE, value |-> NoValue, error |-> "TypeMismatch"]

\* StackPinned::new: Self { value, _pin: PhantomPinned }
StackPinned_new(value) ==
    [kind |-> "wrapper", ty |-> value.ty, raw |-> value.raw, src |-> value.src,
     moved |-> FALSE]

\* StackPinned::get_value_ref: &self.get_ref().value
get_value_ref(self) == [ty |-> self.ty, raw |-> self.raw, src |-> self.src]

\* BoxValue::new: a heap cell holding the value
BoxValue_new(value) ==
    [kind |-> "box", ty |-> value.ty, raw |-> value.raw, src |-> value.src,
     moved |-> FALSE]

\* a move-out that boxes something else than the field `value`
into_box_value_wrong_read(self) ==
    BoxValue_new([ty |-> self.ty, raw |-> 0, src |-> self.src])

\* StackPinned::into_box_value:
\*   let value = ptr::read(&self.get_unchecked_mut().value); BoxValue::new(value)
into_box_value(self) ==
    BoxValue_new([ty |-> self.ty, raw |-> self.raw, src |-> self.src])

\* a conversion that wraps the handle without validating its class
try_convert_pinned_unvalidated(val, ty) ==
    [ok |-> TRUE, boxed |-> StackPinned_new([ty |-> ty, raw |-> val, src |-> val]),
     error |-> "none"]

\* TryConvertPinned::try_convert_pinned:
\*   let converted = T::try_convert(val)?; Ok(Box::pin(StackPinned::new(converted)))
try_convert_pinned(val, ty) ==
    LET converted == try_convert(val, ty) IN
    IF ~converted.ok
    THEN [ok |-> FALSE, boxed |-> FreeCell, error |-> converted.error]
    ELSE [ok |-> TRUE, boxed |-> StackPinned_new(converted.value), error |-> "none"]

\* pin_value: Box::pin(StackPinned::new(value))
pin_value(value) == StackPinned_new(value)

\* pin_to_box: pinned.as_mut().into_box_value()
pin_to_box(pinned) == into_box_value(pinned)

FreeHeap == {h \in Heap : mem[h].kind = "free"}
\* the allocator hands out the lowest free heap address
Alloc == CHOOSE h \in FreeHeap : \A k \in FreeHeap : h <= k

\* a move-out or a new box during the life of a guard is recorded on it
Touch(G) ==
    [h \in 1..Len(G) |-> IF G[h].live THEN [G[h] EXCEPT !.clean = FALSE] ELSE G[h]]

\* let p = T::try_convert_pinned(val)
TryConvertPinned(o) ==
    /\ pc = "Idle"
    /\ LET r == try_convert_pinned(o, ArgT) IN
         /\ r.ok => FreeHeap # {}
         /\ mem' = IF r.ok THEN [mem EXCEPT ![Alloc] = r.boxed] ELSE mem
         /\ last' = r.error
    /\ UNCHANGED <<gc, stale, guards, scopes, pc, disp>>

\* let p = pin_value(v) for a handle v
PinValue(o) ==
    /\ pc = "Idle" /\ FreeHeap # {}
    /\ mem' = [mem EXCEPT ![Alloc] = pin_value(AsValue(o))]
    /\ UNCHANGED <<gc, stale, guards, scopes, pc, disp, last>>

\* a move-out that also unregisters the address of the source wrapper
IntoBoxValue_unregisters_source(a) ==
    /\ Running /\ a \in Reachable /\ FreeHeap # {}
    /\ mem[a].kind = "wrapper" /\ ~mem[a].moved
    /\ mem' = [mem EXCEPT ![Alloc] = into_box_value(mem[a]), ![a].moved = TRUE]
    /\ gc' = register_address(unregister_address(gc, a, 0), Alloc, 0)
    /\ guards' = Touch(guards)
    /\ scopes' = Declare(BoxItem(Alloc))
    /\ UNCHANGED <<stale, pc, disp, last>>

\* let b = unsafe { p.as_mut().into_box_value() }: the box is a new root and
\* a local of the scope; the wrapper stays where it is, its value logically
\* moved out
IntoBoxValue(a) ==
    /\ Running /\ a \in Reachable /\ FreeHeap # {}
    /\ mem[a].kind = "wrapper" /\ ~mem[a].moved
    /\ mem' = [mem EXCEPT ![Alloc] = into_box_value(mem[a]), ![a].moved = TRUE]
    /\ gc' = register_address(gc, Alloc, 0)
    /\ guards' = Touch(guards)
    /\ scopes' = Declare(BoxItem(Alloc))
    /\ UNCHANGED <<stale, pc, disp, last>>

\* a pin_to_box whose box is not a root
PinToBox_no_root(a) ==
    /\ pc = "Idle" /\ a \in Reachable \cap Heap /\ FreeHeap # {}
    /\ mem[a].kind = "wrapper" /\ ~mem[a].moved
    /\ \A g \in LiveGuards : guards[g].value # a
    /\ mem' = [mem EXCEPT ![Alloc] = pin_to_box(mem[a]), ![a] = FreeCell]
    /\ guards' = Touch(guards)
    /\ scopes' = Declare(BoxItem(Alloc))
    /\ UNCHANGED <<gc, stale, pc, disp, last>>

\* let b = pin_to_box(p): p is consumed, so no guard borrows it; its Box is
\* freed when pin_to_box returns
PinToBox(a) ==
    /\ pc = "Idle" /\ a \in Reachable \cap Heap /\ FreeHeap # {}
    /\ mem[a].kind = "wrapper" /\ ~mem[a].moved
    /\ \A g \in LiveGuards : guards[g].value # a
    /\ mem' = [mem EXCEPT ![Alloc] = pin_to_box(mem[a]), ![a] = FreeCell]
    /\ gc' = register_address(gc, Alloc, 0)
    /\ guards' = Touch(guards)
    /\ scopes' = Declare(BoxItem(Alloc))
    /\ UNCHANGED <<stale, pc, disp, last>>

(* ---------------------------- the dispatch ---------------------------- *)
Outcome(k, v, e) == [kind |-> k, value |-> v, error |-> e]

\* ReturnValue::into_return_value of the function's result
into_return_value(res) ==
    IF res.ok THEN Outcome("ok", res.value, "none")
    ELSE Outcome("err", 0, res.error)

\* Error::from_panic: the payload as a host exception
from_panic(payload) == "fatal"

\* a boundary without catch_unwind: the unwind goes on into the host
call_handle_error_pinned_no_catch(outcome) ==
    IF outcome.kind = "panic"
    THEN [state |-> "Aborted", value |-> 0, raised |-> "none"]
    ELSE IF outcome.kind = "ok"
         THEN [state |-> "Returning", value |-> outcome.value, raised |-> "none"]
         ELSE [state |-> "Failing", value |-> 0, raised |-> outcome.error]

\* call_handle_error_pinned: what the host gets for what the closure under
\* catch_unwind did (returned Ok, returned Err, or unwound)
call_handle_error_pinned(outcome) ==
    LET res == IF outcome.kind = "panic"
               THEN Outcome("err", 0, from_panic(outcome.error))
               ELSE outcome
    IN IF res.kind = "ok"
       THEN [state |-> "Returning", value |-> res.value, raised |-> "none"]
       ELSE [state |-> "Failing", value |-> 0, raised |-> res.error]

\* the host calls the method: call_handle_error_pinned(self, rb_self, arg)
Call(s, a) ==
    /\ pc = "Idle"
    /\ pc' = "Entered"
    /\ disp' = [NoDisp EXCEPT !.rb_self = s, !.arg = a, !.regAt = gc.reg]
    /\ gc' = [gc EXCEPT !.nreg = 0]
    /\ UNCHANGED <<mem, stale, guards, scopes, last>>

\* a closure that starts at the argument, skipping the receiver
Begin_skips_receiver ==
    /\ pc = "Entered"
    /\ pc' = "ConvertingArg"
    /\ UNCHANGED <<mem, gc, stale, guards, scopes, disp, last>>

\* catch_unwind runs the closure, which calls call_convert_value_pinned
Begin ==
    /\ pc = "Entered"
    /\ pc' = "ConvertingSelf"
    /\ UNCHANGED <<mem, gc, stale, guards, scopes, disp, last>>

\* a receiver conversion whose error is not propagated by `?`
ConvertSelf_ignores_error ==
    /\ pc = "ConvertingSelf"
    /\ disp' = [disp EXCEPT !.converted_self = try_convert(disp.rb_self, RbSelf).value]
    /\ pc' = "ConvertingArg"
    /\ UNCHANGED <<mem, gc, stale, guards, scopes, last>>

\* a receiver conversion outside catch_unwind: its unwind goes on into the
\* host
ConvertSelf_unwinds_uncaught ==
    /\ pc = "ConvertingSelf"
    /\ LET r == try_convert(disp.rb_self, RbSelf) IN
         \/ /\ r.ok
            /\ disp' = [disp EXCEPT !.converted_self = r.value]
            /\ pc' = "ConvertingArg"
         \/ /\ ~r.ok
            /\ disp' = [disp EXCEPT !.outcome = Outcome("err", 0, r.error)]
            /\ pc' = "Exited"
         \/ /\ disp' = [disp EXCEPT !.outcome = Outcome("panic", 0, "panic")]
            /\ pc' = "Aborted"
    /\ UNCHANGED <<mem, gc, stale, guards, scopes, last>>

\* let converted_self = TryConvert::try_convert(rb_self)?;
ConvertSelf ==
    /\ pc = "ConvertingSelf"
    /\ LET r == try_convert(disp.rb_self, RbSelf) IN
         \/ /\ r.ok
            /\ disp' = [disp EXCEPT !.converted_self = r.value]
            /\ pc' = "ConvertingArg"
         \/ /\ ~r.ok
            /\ disp' = [disp EXCEPT !.outcome = Outcome("err", 0, r.error)]
            /\ pc' = "Exited"
         \/ /\ disp' = [disp EXCEPT !.outcome = Outcome("panic", 0, "panic")]
            /\ pc' = "Exited"
    /\ UNCHANGED <<mem, gc, stale, guards, scopes, last>>

\* an argument conversion whose error is not propagated by `?`
ConvertArg_ignores_error ==
    /\ pc = "ConvertingArg"
    /\ disp' = [disp EXCEPT !.converted_arg = try_convert(disp.arg, ArgT).value,
                            !.argTried = TRUE]
    /\ pc' = "PinningArg"
    /\ UNCHANGED <<mem, gc, stale, guards, scopes, last>>

\* let converted_arg = TryConvert::try_convert(arg)?;
ConvertArg ==
    /\ pc = "ConvertingArg"
    /\ LET r == try_convert(disp.arg, ArgT) IN
         \/ /\ r.ok
            /\ disp' = [disp EXCEPT !.converted_arg = r.value, !.argTried = TRUE]
            /\ pc' = "PinningArg"
         \/ /\ ~r.ok
            /\ disp' = [disp EXCEPT !.outcome = Outcome("err", 0, r.error),
                                    !.argTried = TRUE]
            /\ pc' = "Exited"
         \/ /\ disp' = [disp EXCEPT !.outcome = Outcome("panic", 0, "panic"),
                                    !.argTried = TRUE]
            /\ pc' = "Exited"
    /\ UNCHANGED <<mem, gc, stale, guards, scopes, last>>

\* let mut pinned = StackPinned::new(converted_arg);
\* let pin = unsafe { Pin::new_unchecked(&mut pinned) };
\* and the call (self)(converted_self, pin) is entered
PinArg ==
    /\ pc = "PinningArg"
    /\ mem' = [mem EXCEPT ![ArgSlot] = StackPinned_new(disp.converted_arg),
                          ![SelfSlot] = ValueCell(disp.converted_self)]
    /\ scopes' = Append(scopes, [fn |-> 1, locals |-> <<>>])
    /\ disp' = [disp EXCEPT !.invoked = TRUE]
    /\ pc' = "Invoking"
    /\ UNCHANGED <<gc, stale, guards, last>>

\* the function body calls back into the host: a collection may run, and it
\* may relocate or reclaim what no registered address refers to
HostCall ==
    /\ pc = "Invoking"
    /\ stale' = stale \cup {a \in FrameSlots : gc.reg[a] = 0}
    /\ UNCHANGED <<mem, gc, guards, scopes, pc, disp, last>>

\* a frame exit that leaves the wrapper and the body's guards behind
LeaveBody_keeps_wrapper(outcome) ==
    /\ scopes' = SubSeq(scopes, 1, Len(scopes) - Cardinality(FnScopes))
    /\ stale' = {}
    /\ disp' = [disp EXCEPT !.outcome = outcome]
    /\ pc' = "Exited"
    /\ UNCHANGED <<mem, gc, guards, last>>

\* the frames of the dispatch are left (by return or by unwinding): the
\* locals of the body's scopes are dropped, then the two stack slots die
LeaveBody(outcome) ==
    /\ LET n == Cardinality(FnScopes)
           st == DropScopes(St, scopes, n) IN
         /\ gc' = st.gc /\ guards' = st.guards
         /\ mem' = [st.mem EXCEPT ![ArgSlot] = FreeCell, ![SelfSlot] = FreeCell]
         /\ scopes' = SubSeq(scopes, 1, Len(scopes) - n)
    /\ stale' = {}
    /\ disp' = [disp EXCEPT !.outcome = outcome]
    /\ pc' = "Exited"
    /\ UNCHANGED last

\* the body returns (from any depth of its blocks) and
\* (self)(converted_self, pin).into_return_value() is the closure's result
BodyReturn(ok) ==
    /\ pc = "Invoking"
    /\ LeaveBody(into_return_value(
           [ok |-> ok, value |-> disp.converted_self.raw, error |-> "Error"]))

\* a fault translated and raised where it happens, over the live frames
BodyPanic_raises_in_place ==
    /\ pc = "Invoking"
    /\ pc' = "Failing"
    /\ disp' = [disp EXCEPT !.outcome = Outcome("panic", 0, from_panic("panic"))]
    /\ UNCHANGED <<mem, gc, stale, guards, scopes, last>>

\* the body panics: the unwind runs the drops of its frames up to catch_unwind
BodyPanic ==
    /\ pc = "Invoking"
    /\ LeaveBody(Outcome("panic", 0, "panic"))

\* the body has returned and into_return_value panics while converting its
\* result: the unwind runs through call_convert_value_pinned's frame
ResultPanic ==
    /\ pc = "Invoking"
    /\ LeaveBody(Outcome("panic", 0, "panic in into_return_value"))

\* match res { Ok(v) => v, Err(e) => raise(e) }
Finish ==
    /\ pc = "Exited"
    /\ LET r == call_handle_error_pinned(disp.outcome) IN
         /\ pc' = r.state
         /\ disp' = [disp EXCEPT !.outcome = Outcome(disp.outcome.kind, r.value, r.raised)]
    /\ UNCHANGED <<mem, gc, stale, guards, scopes, last>>

\* the guards of the top-level code, which stay on record
Kept == SelectSeq(guards, LAMBDA G : G.fn = 0)

\* control is back in the host, which goes on with the top-level code; the
\* record of the dispatch is cleared
Resume ==
    /\ pc \in {"Returning", "Failing"}
    /\ pc' = "Idle"
    /\ disp' = NoDisp
    /\ guards' = Kept
    /\ gc' = [gc EXCEPT !.nreg = 0,
                        !.regs = [g \in Callers |-> IF g <= Len(Kept) THEN @[g] ELSE <<>>],
                        !.unregs = [g \in Callers |-> IF g <= Len(Kept) THEN @[g] ELSE <<>>]]
    /\ UNCHANGED <<mem, stale, scopes, last>>

(* -------------------------- specifications ---------------------------- *)
\* what native code (top-level code, or the function body of a dispatch)
\* does with guards
Pin ==
    \/ \E a \in Addr : GuardNew(a)
    \/ \E a \in Addr : GuardNewUnchecked(a)
    \/ \E g \in 1..MaxGuards : GuardRead(g)
    \/ \E g \in 1..MaxGuards, o \in Objs : GuardWrite(g, o)
    \/ \E g \in 1..MaxGuards, o \in Objs : GuardSet(g, o)
    \/ EnterScope
    \/ ExitScope
    \/ EarlyReturn
    \/ \E a \in Addr : IntoBoxValue(a)

\* the conversions to and from pinned wrappers, as top-level code calls them
Convert ==
    \/ \E o \in Objs : TryConvertPinned(o)
    \/ \E o \in Objs : PinValue(o)
    \/ \E a \in Addr : IntoBoxValue(a)
    \/ \E a \in Addr : PinToBox(a)

\* top-level code that pins values, guards them and moves them out
MoveOut ==
    \/ \E o \in Objs : PinValue(o)
    \/ \E a \in Addr : GuardNew(a)
    \/ \E a \in Addr : GuardNewUnchecked(a)
    \/ \E a \in Addr : IntoBoxValue(a)
    \/ \E a \in Addr : PinToBox(a)
    \/ EarlyReturn

\* the dispatch of one method call
Dispatch ==
    \/ \E s \in SelfInputs, a \in ArgInputs : Call(s, a)
    \/ Begin
    \/ ConvertSelf
    \/ ConvertArg
    \/ PinArg
    \/ HostCall
    \/ \E ok \in BOOLEAN : BodyReturn(ok)
    \/ BodyPanic
    \/ ResultPanic
    \/ Finish
    \/ Resume

Next == Pin \/ Dispatch

\* the dispatches of the host, with what the function bodies and the
\* top-level code do with guards
Spec == Init /\ [][Next]_vars

\* the conversions alone
SpecConvert == Init /\ [][Convert]_vars

\* the move-outs of top-level code, with guards live
SpecMoveOut == Init /\ [][MoveOut]_vars

(* ------------------------------ claims -------------------------------- *)
Recorded == 1..Len(guards)

\* C1 (pairing): every guard made exactly one register_address call; while
\* its scope is open it has made no unregister_address call; once its scope
\* is left (block end, return from any depth, or an unwind caught by the
\* dispatch) it has made exactly one, with the address it registered.  No
\* guard ever accounts for more than one live registration.
Pairing ==
    /\ \A g \in Recorded :
         /\ Len(gc.regs[g]) = 1
         /\ guards[g].live => gc.unregs[g] = <<>>
         /\ ~guards[g].live => gc.unregs[g] = gc.regs[g]
         /\ guards[g].live <=>
              \E i \in 1..Len(scopes) :
                 /\ scopes[i].fn = guards[g].fn
                 /\ \E j \in 1..Len(scopes[i].locals) : scopes[i].locals[j].guard = g
    /\ pc \in {"Exited", "Returning", "Failing"} =>
         \A g \in Recorded : guards[g].fn = 1 => ~guards[g].live

\* a caught fault has unwound the body, which had made two guards
PairingWitness ==
    /\ pc = "Failing" /\ disp.outcome.kind = "panic"
    /\ \E g, h \in Recorded :
         /\ g # h /\ guards[g].fn = 1 /\ guards[h].fn = 1
         /\ gc.unregs[g] = gc.regs[g] /\ gc.unregs[h] = gc.regs[h]

\* C2 (as claimed): while the function body runs, the address of the pinned
\* argument is registered and no collection can have invalidated its handle
ArgRegisteredWhileInvoking ==
    pc = "Invoking" => gc.reg[ArgSlot] > 0 /\ ArgSlot \notin stale

\* C3 (fault containment): a dispatch whose function body panicked is never
\* anywhere but in the dispatch states, and once past the match it is in
\* Failing with the fault translated by Error::from_panic
FaultContained ==
    /\ pc \in {"Idle", "Entered", "ConvertingSelf", "ConvertingArg", "PinningArg",
               "Invoking", "Exited", "Returning", "Failing"}
    /\ (disp.invoked /\ disp.outcome.kind = "panic" /\ pc # "Exited") =>
          pc = "Failing" /\ disp.outcome.error = from_panic("panic")

FaultContainedWitness ==
    /\ pc = "Failing" /\ disp.invoked /\ disp.outcome.kind = "panic"
    /\ disp.outcome.error = "fatal"

\* C4: once a dispatch whose receiver fails conversion is past
\* Converting-Self, it is on its way to Failing with TypeMismatch: the
\* argument conversion was not attempted, no wrapper was made, the function
\* was not invoked, and no register_address call was made
ReceiverFailureStops ==
    (/\ pc \in {"ConvertingArg", "PinningArg", "Invoking", "Exited",
                "Returning", "Failing"}
     /\ ~try_convert(disp.rb_self, RbSelf).ok
     /\ disp.outcome.kind # "panic") =>
        /\ pc \in {"Exited", "Failing"}
        /\ disp.outcome.kind = "err" /\ disp.outcome.error = "TypeMismatch"
        /\ ~disp.argTried /\ ~disp.invoked
        /\ mem[ArgSlot].kind = "free"
        /\ gc.nreg = 0 /\ gc.reg = disp.regAt

\* receiver and argument both of the wrong class
ReceiverFailureWitness ==
    /\ pc = "Failing" /\ disp.outcome.error = "TypeMismatch"
    /\ ClassOf(disp.rb_self) # RbSelf /\ ClassOf(disp.arg) # ArgT

\* C5 (address stability): the pointer a live guard holds is the address it
\* registered, whatever was read or written through it, and every address a
\* guard passed to unregister_address is the address it registered
AddressStable ==
    \A g \in Recorded :
        /\ gc.regs[g] # <<>>
        /\ guards[g].live => guards[g].value = gc.regs[g][1]
        /\ \A i \in 1..Len(gc.unregs[g]) : gc.unregs[g][i] = gc.regs[g][1]

\* a guard over the top-level local was written through and then dropped
AddressStableWitness ==
    \E g \in Recorded :
        /\ ~guards[g].live /\ guards[g].fn = 0
        /\ mem[guards[g].value].raw = 2
        /\ gc.unregs[g] = <<guards[g].value>>

\* C6 (guard invariant): every address has at least as many registrations
\* as live guards over it, so each live guard's address is registered from
\* its construction until its own drop
GuardInvariant ==
    \A a \in Addr :
        gc.reg[a] >= Cardinality({g \in LiveGuards : guards[g].value = a})

\* a guard made by reborrowing through a live guard has been dropped, and
\* the first guard is live and still registered
GuardInvariantWitness ==
    \E g, h \in Recorded :
        /\ g < h /\ guards[g].value = guards[h].value
        /\ guards[g].live /\ ~guards[h].live
        /\ gc.reg[guards[g].value] = 1

ScopeRestores ==
    [][ExitScope =>
         LET ls == scopes[Len(scopes)].locals IN
         (ls # <<>> /\ ls[1].guard > 0) =>
             LET G == guards[ls[1].guard] IN
             /\ gc'.reg = G.regAt
             /\ G.clean => mem'[G.value] = G.cellAt /\ mem' = mem]_vars

\* the top-level function holds a guard over its local, pinned the local
\* again in an inner block, and the block has ended: only the block's end
\* drops the inner guard while the outer one lives
ScopeRestoresWitness ==
    /\ pc = "Idle" /\ Len(scopes) = 1
    /\ \E g, h \in Recorded :
         /\ g < h /\ guards[g].fn = 0 /\ guards[h].fn = 0
         /\ guards[g].live /\ ~guards[h].live
         /\ guards[g].value \in Locals /\ guards[h].value = guards[g].value
         /\ gc.unregs[h] = gc.regs[h]
         /\ gc.reg = [a \in Addr |-> IF a = guards[g].value THEN 1 ELSE 0]
    /\ \A a \in Locals : mem[a] = ValueCell(AsValue(1))

\* C10: when the body has panicked, every guard made in the dispatch frame
\* has deregistered by the time the closure is left, that is before the
\* fault is translated and raised; and the step after the raise changes no
\* registration
DeregisteredBeforeRaise ==
    /\ [](pc \in {"Exited", "Failing"} /\ disp.outcome.kind = "panic" =>
            \A g \in Recorded :
                guards[g].fn = 1 => ~guards[g].live /\ Len(gc.unregs[g]) = 1)
    /\ [][pc = "Failing" => gc'.reg = gc.reg]_vars

\* the body made a guard over the pinned argument and then panicked
DeregisteredBeforeRaiseWitness ==
    /\ pc = "Failing" /\ disp.outcome.kind = "panic"
    /\ \E g \in Recorded :
         /\ guards[g].fn = 1 /\ guards[g].value = ArgSlot
         /\ gc.unregs[g] = <<ArgSlot>>

\* C11: once a dispatch whose receiver converts and whose argument fails
\* conversion is past Converting-Arg, it is on its way to Failing with the
\* argument's TypeMismatch: no wrapper was made in the frame, the function
\* was not invoked, and no register_address call was made
ArgumentFailureStops ==
    (/\ pc \in {"PinningArg", "Invoking", "Exited", "Returning", "Failing"}
     /\ try_convert(disp.rb_self, RbSelf).ok
     /\ ~try_convert(disp.arg, ArgT).ok
     /\ disp.outcome.kind # "panic") =>
        /\ pc \in {"Exited", "Failing"}
        /\ disp.outcome.kind = "err" /\ disp.outcome.error = "TypeMismatch"
        /\ disp.argTried /\ ~disp.invoked
        /\ disp.converted_self # NoValue /\ disp.converted_arg = NoValue
        /\ mem[ArgSlot].kind = "free"
        /\ gc.nreg = 0 /\ gc.reg = disp.regAt

\* a String receiver was called with an Array argument, while the top-level
\* code held a registration
ArgumentFailureWitness ==
    /\ pc = "Failing" /\ disp.outcome.error = "TypeMismatch"
    /\ ClassOf(disp.rb_self) = RbSelf /\ ClassOf(disp.arg) # ArgT
    /\ disp.argTried
    /\ \E a \in Locals : gc.reg[a] > 0

\* C12: a dispatch moves through Entered, Converting-Self, Converting-Arg,
\* Pinning-Arg and Invoking in that order, one state at a time, leaving the
\* sequence only for its end; it ends in Returning or in Failing and then
\* goes back to the host.  Returning hands over a handle and no exception,
\* and only after both conversions succeeded, the body ran and its result
\* converted; Failing raises one exception and hands over no handle.
DispatchOrder ==
    /\ [](/\ pc = "Returning" =>
               /\ try_convert(disp.rb_self, RbSelf).ok
               /\ try_convert(disp.arg, ArgT).ok
               /\ disp.argTried /\ disp.invoked
               /\ disp.outcome.kind = "ok" /\ disp.outcome.error = "none"
               /\ disp.outcome.value \in Objs
          /\ pc = "Failing" =>
               /\ disp.outcome.kind \in {"err", "panic"}
               /\ disp.outcome.error # "none" /\ disp.outcome.value = 0
          /\ disp.invoked => disp.argTried /\ disp.converted_self # NoValue
                               /\ disp.converted_arg # NoValue)
    /\ [][\/ pc' = pc /\ pc \in {"Idle", "Invoking"}
          \/ pc = "Idle" /\ pc' = "Entered"
          \/ pc = "Entered" /\ pc' = "ConvertingSelf"
          \/ pc = "ConvertingSelf" /\ pc' \in {"ConvertingArg", "Exited"}
          \/ pc = "ConvertingArg" /\ pc' \in {"PinningArg", "Exited"}
          \/ pc = "PinningArg" /\ pc' = "Invoking"
          \/ pc = "Invoking" /\ pc' = "Exited"
          \/ pc = "Exited" /\ pc' \in {"Returning", "Failing"}
          \/ pc \in {"Returning", "Failing"} /\ pc' = "Idle"]_vars

\* a dispatch went all the way and returns the receiver's handle
DispatchOrderWitness ==
    /\ pc = "Returning" /\ disp.invoked
    /\ disp.outcome.value = disp.rb_self /\ disp.converted_arg.raw = 2

\* C13: the wrapper of the argument exists only while the function body
\* runs: it is made after the argument converted, and it is gone when the
\* closure is left.  From then on, whether the
\* dispatch returns or raises, the registry holds what it held when the
\* host called in (a box made by a move-out in the body is a local of the
\* body and has been dropped with it).
PinnedForCallOnly ==
    /\ mem[ArgSlot].kind # "free" =>
          /\ pc = "Invoking" /\ mem[ArgSlot].kind = "wrapper"
          /\ disp.argTried /\ try_convert(disp.arg, ArgT).ok
          /\ mem[ArgSlot].ty = ArgT
    /\ pc \in {"Exited", "Returning", "Failing"} =>
          /\ mem[ArgSlot] = FreeCell
          /\ gc.reg = disp.regAt
          /\ \A g \in Recorded : guards[g].fn = 1 => ~guards[g].live

\* the host called in while the top-level code held a registration; the
\* body made a guard and then panicked
PinnedForCallOnlyWitness ==
    /\ pc = "Failing" /\ disp.invoked /\ disp.outcome.kind = "panic"
    /\ \E a \in Locals : disp.regAt[a] = 1
    /\ \E g \in Recorded : guards[g].fn = 1 /\ gc.regs[g] = <<ArgSlot>>

\* C14: no unregister_address call was ever made on an address that was not
\* registered at that moment; a guard unregisters at most once, and only
\* the address its constructor registered
RegistryDefined ==
    /\ ~gc.ub
    /\ \A g \in Recorded :
          /\ Len(gc.unregs[g]) <= Len(gc.regs[g])
          /\ \A i \in 1..Len(gc.unregs[g]) : gc.unregs[g][i] = gc.regs[g][i]
          /\ guards[g].live => gc.reg[guards[g].value] > 0

\* in the function body, the value of the pinned argument was moved out
\* while a guard over it was live; a second guard over it has been dropped
\* since and the first is still to drop
RegistryDefinedWitness ==
    /\ pc = "Invoking" /\ mem[ArgSlot].moved
    /\ \E g, h \in Recorded :
          /\ g < h /\ guards[g].value = ArgSlot /\ guards[h].value = ArgSlot
          /\ guards[g].live /\ ~guards[g].clean
          /\ ~guards[h].live /\ gc.unregs[h] = <<ArgSlot>>
          /\ gc.reg[ArgSlot] = 1

\* C15 (as claimed): after any write made through the &mut T of deref_mut,
\* the guarded storage holds the value the guard was constructed over
WholeValueKept ==
    [][\A g \in 1..MaxGuards, o \in Objs :
         GuardWrite(g, o) =>
            mem'[deref_mut(guards[g])].raw = guards[g].cellAt.raw]_vars

\* C16: a fault raised anywhere in call_convert_value_pinned (the receiver's
\* conversion, the argument's, the function body or the conversion of its
\* result) takes the dispatch out of the closure to the match, and from there
\* to Failing with the exception Error::from_panic made of it; the dispatch
\* is never anywhere but in its own states
FaultCapturedAnywhere ==
    /\ [](/\ pc \in {"Idle", "Entered", "ConvertingSelf", "ConvertingArg",
                     "PinningArg", "Invoking", "Exited", "Returning", "Failing"}
          /\ disp.outcome.kind = "panic" =>
               /\ pc \in {"Exited", "Failing"}
               /\ pc = "Failing" =>
                     disp.outcome.error = from_panic("panic") /\ disp.outcome.value = 0)
    /\ [][/\ (disp.outcome.kind # "panic" /\ disp'.outcome.kind = "panic") =>
               pc \in {"ConvertingSelf", "ConvertingArg", "Invoking"} /\ pc' = "Exited"
          /\ (pc = "Exited" /\ disp.outcome.kind = "panic") => pc' = "Failing"]_vars

\* a fault in the receiver's conversion was raised as a host exception
FaultCapturedAnywhereWitness ==
    /\ pc = "Failing" /\ disp.outcome.kind = "panic" /\ disp.outcome.error = "fatal"
    /\ ~disp.argTried /\ ~disp.invoked

\* C17: a move-out (into_box_value, or pin_to_box) makes one box in a free
\* heap cell and adds one registration, of the box's address; it makes no
\* register or unregister call in the name of a guard, and the registrations
\* of every other address, the source wrapper's included, are what they were
MoveOutAddsOneRoot ==
    [][\A a \in Addr :
         (IntoBoxValue(a) \/ PinToBox(a)) =>
            \E h \in Heap :
               /\ h # a /\ mem[h].kind = "free" /\ mem'[h].kind = "box"
               /\ gc'.reg = [gc.reg EXCEPT ![h] = @ + 1]
               /\ gc.reg[h] = 0 /\ gc'.reg[a] = gc.reg[a]
               /\ gc'.regs = gc.regs /\ gc'.unregs = gc.unregs
               /\ gc'.ub = gc.ub]_vars

\* pin_to_box consumed a wrapper while a guard over the local was live: the
\* box and the guarded local are the two roots
MoveOutAddsOneRootWitness ==
    /\ \E h \in Heap :
          /\ mem[h].kind = "box" /\ gc.reg[h] = 1
          /\ \A k \in Heap \ {h} : mem[k].kind = "free"
    /\ \E g \in Recorded :
          /\ guards[g].live /\ guards[g].value \in Locals
          /\ gc.reg[guards[g].value] = 1
          /\ gc.unregs[g] = <<>>
====
